---- MODULE Spec2Model ----
(***************************************************************************)
(* SparkCare AI: the authorization gate (authenticateToken and the         *)
(* permission middlewares), the session-token routes of /api/auth and the  *)
(* Staff model methods they rest on.                                       *)
(*                                                                         *)
(* Time is counted in ticks; TicksPerSec ticks make one clock second, so   *)
(* that Date values (tick precision, the code's milliseconds) and JWT      *)
(* iat/exp values (whole seconds) are told apart as the code tells them.   *)
(***************************************************************************)
EXTENDS Integers, Sequences, FiniteSets, TLC

VARIABLES now, staff, issued, req, hp, audit, rd, loaded, dailyLog, hook, plan

vars == <<now, staff, issued, req, hp, audit, rd, loaded, dailyLog, hook, plan>>

(***************************************************************************)
(* Bounds of the model.                                                    *)
(***************************************************************************)
TicksPerSec == 2
MaxTime == 3
AccessTTL == 1
RefreshTTL == 2
ResetTTL == 1
LockTicks == 2

MaxLoginAttempts == 5

StaffIds == {1, 2}
Residents == {"r1", "r2"}
AccessLevels == {"Carer", "Senior", "Admin"}
Passwords == {"p", "q"}

\* An absent Date field (lockUntil, passwordResetExpires) and an absent id.
NoDate == -1
NoId == 0

NowSec == now \div TicksPerSec

(***************************************************************************)
(* Tokens.  sig abstracts the HMAC check of jwt.verify; userId, id and     *)
(* purpose are the payload claims the code writes or reads (NoId, "" when  *)
(* the payload lacks them); iat and exp are in seconds.  at is the tick at *)
(* which the token was signed and kind the route that signed it: neither   *)
(* is read by the code.                                                    *)
(***************************************************************************)
NoToken == [kind |-> "none", sig |-> FALSE, userId |-> NoId, id |-> NoId,
            purpose |-> "", iat |-> 0, exp |-> 0, at |-> 0]

\* jwt.sign at tick t: iat is the clock in whole seconds.
jwtSignAt(kind, userId, id, purpose, ttl, t) ==
  [kind |-> kind, sig |-> TRUE, userId |-> userId, id |-> id,
   purpose |-> purpose, iat |-> t \div TicksPerSec,
   exp |-> (t \div TicksPerSec) + ttl, at |-> t]

jwtSign(kind, userId, id, purpose, ttl) ==
  jwtSignAt(kind, userId, id, purpose, ttl, now)

\* jwt.verify: the signature is checked first, then the expiry.
jwtVerify(token) ==
  IF ~token.sig THEN "JsonWebTokenError"
  ELSE IF NowSec >= token.exp THEN "TokenExpiredError"
  ELSE "ok"

\* generateTokens signs {id, email, role, facilityId} and {id}: neither
\* payload has a userId claim.
generateTokensAt(u, t) ==
  [accessToken  |-> jwtSignAt("access", NoId, u, "", AccessTTL, t),
   refreshToken |-> jwtSignAt("refresh", NoId, u, "", RefreshTTL, t)]

generateTokens(u) == generateTokensAt(u, now)

(***************************************************************************)
(* Staff documents.  staff[s] is the stored document; a handler works on   *)
(* the copy a query returned.  NoDoc is the null a query returns.          *)
(***************************************************************************)
bcryptHash(plain) == [plain |-> plain, rounds |-> 1]

\* Hashing what already is a hash gives a hash of no plain password.
bcryptRehash(hash) == [plain |-> hash.plain, rounds |-> hash.rounds + 1]

bcryptCompare(candidate, hash) == hash.rounds = 1 /\ hash.plain = candidate

NoDoc == [id |-> NoId, isActive |-> FALSE, accessLevel |-> "", role |-> "",
          assignedResidents |-> <<>>, accountLocked |-> FALSE,
          lockUntil |-> NoDate, loginAttempts |-> 0,
          password |-> bcryptHash(""), passwordChangedAt |-> NoDate,
          passwordResetToken |-> NoToken, passwordResetExpires |-> NoDate,
          facility |-> ""]

NewStaff(s, level, residents, plain) ==
  [NoDoc EXCEPT !.id = s, !.isActive = TRUE, !.accessLevel = level,
                !.role = level, !.assignedResidents = residents,
                !.password = bcryptHash(plain), !.passwordChangedAt = 0,
                !.facility = "f1"]

\* Staff.findById: a missing or undefined id matches no document.
findById(id) == IF id \in StaffIds THEN staff[id] ELSE NoDoc

isAccountLocked(doc) ==
  doc.accountLocked /\ doc.lockUntil # NoDate /\ doc.lockUntil > now

Includes(seq, x) == \E i \in 1..Len(seq) : seq[i] = x

\* The table with a Senior list that was not copied out of the Carer list
\* in full.
permissions_SeniorShort ==
  [Carer  |-> <<"view_residents", "create_logs", "view_care_plans",
                "complete_tasks">>,
   Senior |-> <<"view_residents", "create_logs", "view_care_plans",
                "create_care_plans", "view_reports", "manage_tasks">>,
   Admin  |-> <<"*">>]

permissions ==
  [Carer  |-> <<"view_residents", "create_logs", "view_care_plans",
                "complete_tasks">>,
   Senior |-> <<"view_residents", "create_logs", "view_care_plans",
                "complete_tasks", "create_care_plans", "view_reports",
                "manage_tasks">>,
   Admin  |-> <<"*">>]

\* hasPermission looking the list up by this.role.
hasPermission_ByRole(doc, permission) ==
  LET userPermissions == IF doc.role \in DOMAIN permissions
                           THEN permissions[doc.role]
                           ELSE <<>>
  IN  Includes(userPermissions, "*") \/ Includes(userPermissions, permission)

hasPermission(doc, permission) ==
  LET userPermissions == IF doc.accessLevel \in DOMAIN permissions
                           THEN permissions[doc.accessLevel]
                           ELSE <<>>
  IN  Includes(userPermissions, "*") \/ Includes(userPermissions, permission)

\* The update incrementLoginAttempts sends for the copy this, applied to the
\* stored document doc.
incrementLoginAttempts(this, doc) ==
  IF this.lockUntil # NoDate /\ this.lockUntil < now
    THEN [doc EXCEPT !.lockUntil = NoDate, !.loginAttempts = 1]
    ELSE IF this.loginAttempts + 1 >= MaxLoginAttempts /\ ~isAccountLocked(this)
           THEN [doc EXCEPT !.loginAttempts = @ + 1,
                            !.lockUntil = now + LockTicks,
                            !.accountLocked = TRUE]
           ELSE [doc EXCEPT !.loginAttempts = @ + 1]

resetLoginAttempts(doc) ==
  [doc EXCEPT !.loginAttempts = 0, !.lockUntil = NoDate,
              !.accountLocked = FALSE]

(***************************************************************************)
(* Callers that hold a copy of a staff document they loaded earlier (the   *)
(* this of a document method); NoDoc when a caller holds none.             *)
(***************************************************************************)
MaxCallers == 2

Callers == 1..MaxCallers

NoLoaded == [c \in Callers |-> NoDoc]

(***************************************************************************)
(* A daily log.  The DailyLog schema has createdBy, logTime and createdAt  *)
(* (timestamps: true) and no path timestamp: log.timestamp is undefined,   *)
(* written NoDate.  edits counts the updates written to the log.           *)
(***************************************************************************)
NoLog == [id |-> "", createdBy |-> NoId, createdAt |-> NoDate,
          timestamp |-> NoDate, updatedBy |-> NoId, edits |-> 0]

NewLog(id, createdBy, createdAt) ==
  [NoLog EXCEPT !.id = id, !.createdBy = createdBy, !.createdAt = createdAt]

(***************************************************************************)
(* Care plans.  plan is one CarePlan document: its currentVersion, its     *)
(* readReceipts in array order and the versions archived so far.           *)
(***************************************************************************)
NewCarePlan == [currentVersion |-> 1, readReceipts |-> <<>>,
                previousVersions |-> <<>>, updatedBy |-> NoDate]

\* readReceipts.filter(receipt => !receipt.staff.equals(staffId) ||
\*                                receipt.version !== this.currentVersion)
OtherReceipts(p, staffId) ==
  SelectSeq(p.readReceipts,
            LAMBDA receipt : receipt.staff # staffId
                               \/ receipt.version # p.currentVersion)

addReadReceipt_Push(p, staffId, date) ==
  [p EXCEPT !.readReceipts =
     Append(p.readReceipts,
            [staff |-> staffId, version |-> p.currentVersion,
             readDate |-> date])]

addReadReceipt(p, staffId, date) ==
  [p EXCEPT !.readReceipts =
     Append(OtherReceipts(p, staffId),
            [staff |-> staffId, version |-> p.currentVersion,
             readDate |-> date])]

createNewVersion(p, reasonForChange, updatedBy) ==
  [p EXCEPT !.previousVersions =
              Append(p.previousVersions,
                     [version |-> p.currentVersion, archivedBy |-> updatedBy,
                      reasonForChange |-> reasonForChange]),
            !.currentVersion = p.currentVersion + 1,
            !.updatedBy = updatedBy,
            !.readReceipts = <<>>]

\* The readDate of the first receipt of staffId for the current version, or
\* null (NoDate).
getStaffReadStatus(p, staffId) ==
  LET found == SelectSeq(p.readReceipts,
                         LAMBDA r : r.staff = staffId
                                      /\ r.version = p.currentVersion)
  IN  IF found # <<>> THEN found[1].readDate ELSE NoDate

(***************************************************************************)
(* Webhooks.  hook holds the secrets the endpoints were given when the     *)
(* routes were built (process.env, "" when unset) and the webhook request  *)
(* being served: its endpoint, the body as sent, its signature header.     *)
(***************************************************************************)
Endpoints == {"ai-model-callback", "external-system"}

\* The bodies as sent, and JSON.stringify of what express.json parsed from
\* them: the same text without the white space.
RawBodies == {"{\"status\":\"completed\"}", "{ \"status\": \"completed\" }",
              "{\"status\":\"failed\"}"}

JSONStringifyParsed(raw) ==
  IF raw = "{ \"status\": \"completed\" }" THEN "{\"status\":\"completed\"}"
  ELSE raw

\* 'sha256=' + HMAC-SHA256 of text under secret; NoSignature is the absent
\* header.
HmacSha256(secret, text) == [secret |-> secret, text |-> text]

NoSignature == [secret |-> "", text |-> ""]

NoHook == [secrets |-> [e \in Endpoints |-> ""], stage |-> "idle",
           endpoint |-> "", raw |-> "", signature |-> NoSignature,
           status |-> 0, handlerRan |-> FALSE]

(***************************************************************************)
(* The residents collection: r1 lives in the facility of the staff, r2 in  *)
(* another one.  The Resident schema has the path facility and no path     *)
(* facilityId.                                                             *)
(***************************************************************************)
residents ==
  [r \in Residents |->
     [id |-> r, facility |-> IF r = "r1" THEN "f1" ELSE "f2", facilityId |-> ""]]

NoResident == [id |-> "", facility |-> "", facilityId |-> ""]

\* Resident.findById(id)
findResidentById(id) == IF id \in Residents THEN residents[id] ELSE NoResident

\* Resident.findOne({_id: id, facilityId: facilityId}): a filter value that is
\* undefined matches the documents without the field.
findResident(id, facilityId) ==
  IF id \in Residents /\ residents[id].facilityId = facilityId
    THEN residents[id] ELSE NoResident

(***************************************************************************)
(* One request in flight.  gate is the authentication middleware the route *)
(* is mounted behind.  doc is what Staff.findById returned to the gate,    *)
(* user is req.user, status and error what was sent (0, "" while nothing   *)
(* was), deniedBy the middleware that sent a denial, last the permission   *)
(* middleware that ran last, with its arguments and whether it called      *)
(* next(), granted the staff member the response carries a token pair for, *)
(* read the resident whose document a handler loaded, records the audit    *)
(* entries the request handed to fs.appendFile, in the order of the calls. *)
(***************************************************************************)
NoParams == [residentId |-> "", id |-> "", bodyResidentId |-> ""]

NoMw == [mw |-> "", levels |-> <<>>, permission |-> "", params |-> NoParams,
         next |-> FALSE]

\* The fields of the loaded document that the middlewares and the handlers
\* read from req.user.
\* The Staff schema has the path facility and no path facilityId: on the
\* loaded document facilityId is undefined ("").
NoUser == [id |-> NoId, isActive |-> FALSE, accessLevel |-> "", role |-> "",
           assignedResidents |-> <<>>, facility |-> "", facilityId |-> ""]

AsUser(doc) ==
  [id |-> doc.id, isActive |-> doc.isActive, accessLevel |-> doc.accessLevel,
   role |-> doc.role, assignedResidents |-> doc.assignedResidents,
   facility |-> doc.facility, facilityId |-> ""]

\* What the gate saw of the document it loaded.
NoSeen == [id |-> NoId, isActive |-> FALSE, lockFuture |-> FALSE]

Seen(doc) ==
  [id |-> doc.id, isActive |-> doc.isActive,
   lockFuture |-> doc.lockUntil # NoDate /\ doc.lockUntil > now]

NoReq == [stage |-> "idle", gate |-> "", token |-> NoToken, doc |-> NoSeen,
          user |-> NoUser, userId |-> NoId, status |-> 0, error |-> "",
          deniedBy |-> "", handlerRan |-> FALSE, last |-> NoMw,
          granted |-> NoId, read |-> "", records |-> <<>>,
          aborted |-> FALSE, html |-> FALSE]

NewReq(gate, token) == [NoReq EXCEPT !.gate = gate, !.token = token]

(***************************************************************************)
(* The audit recorder.  A url is given by the path its router is mounted   *)
(* on.                                                                     *)
(***************************************************************************)
sensitiveEndpoints ==
  {"/api/auth", "/api/residents", "/api/care-plans", "/api/daily-logs",
   "/api/staff", "/api/reports", "/api/risk-assessments"}

requiresAuditLogging(url) == \E endpoint \in sensitiveEndpoints : url = endpoint

\* The entry createAuditEntry builds for a response.
createAuditEntry(r) ==
  [eventType |-> "API_ACCESS", careEventType |-> "", statusCode |-> r.status]

\* An auditCareEvent that awaited the append and let its rejection reach the
\* handler: with the file not writable the request ends in a 500.
auditCareEvent_Awaited(r, eventType) ==
  IF audit.up
    THEN [r EXCEPT !.records =
            Append(@, [eventType |-> "CARE_EVENT",
                       careEventType |-> eventType, statusCode |-> 0])]
  ELSE [r EXCEPT !.status = 500, !.error = "Internal Server Error",
                 !.deniedBy = "errorHandler"]

\* auditCareEvent(eventType, details, userId): the entry goes to
\* fs.appendFile, the promise is not awaited.
auditCareEvent(r, eventType) ==
  [r EXCEPT !.records =
     Append(@, [eventType |-> "CARE_EVENT", careEventType |-> eventType,
                statusCode |-> 0])]

\* The res.send installed by auditLogger, run by res.json for the response
\* that r holds.
auditSend(r, url) ==
  IF requiresAuditLogging(url) \/ r.status >= 400
    THEN [r EXCEPT !.records = Append(@, createAuditEntry(r))]
    ELSE r

\* A denial sent without the return: the chain goes on.
Deny_NoReturn(r, mw, code, error) ==
  auditSend([r EXCEPT !.stage = "chain", !.status = code, !.error = error,
                      !.deniedBy = mw], "")

\* res.status(code).json({error}) and return: nothing later in the route runs.
\* The status is 400 or more: the audit entry is written whatever the url.
Deny(r, mw, code, error) ==
  auditSend([r EXCEPT !.stage = "done", !.status = code, !.error = error,
                      !.deniedBy = mw], "")

\* next()
Proceed(r) == [r EXCEPT !.stage = "chain"]

authenticateToken(r) ==
  LET token == r.token
      decoded == jwtVerify(token)
      user == findById(token.userId)
      found == [r EXCEPT !.doc = Seen(user)]
  IN  IF token.kind = "none"
        THEN Deny(r, "authenticateToken", 401, "Authentication Required")
      ELSE IF decoded = "JsonWebTokenError"
        THEN Deny(r, "authenticateToken", 401, "Invalid Token")
      ELSE IF decoded = "TokenExpiredError"
        THEN Deny(r, "authenticateToken", 401, "Token Expired")
      ELSE IF user = NoDoc
        THEN Deny(r, "authenticateToken", 401, "Authentication Failed")
      ELSE IF ~user.isActive
        THEN Deny(found, "authenticateToken", 401, "Account Disabled")
      ELSE IF isAccountLocked(user)
        THEN Deny(found, "authenticateToken", 401, "Account Locked")
      ELSE IF token.iat < user.passwordChangedAt \div TicksPerSec
        THEN Deny(found, "authenticateToken", 401, "Token Invalid")
      ELSE Proceed([found EXCEPT !.user = AsUser(user), !.userId = user.id])

optionalAuth(r) ==
  LET token == r.token
      user == findById(token.userId)
  IN  IF token.kind # "none" /\ jwtVerify(token) = "ok" /\ user # NoDoc
         /\ user.isActive
        THEN Proceed([r EXCEPT !.doc = Seen(user), !.user = AsUser(user),
                               !.userId = user.id])
        ELSE Proceed(r)

Ran(r, mw) == [r EXCEPT !.last = mw]

Passed(r, mw) == [r EXCEPT !.last = [mw EXCEPT !.next = TRUE]]

requireAccessLevel(requiredLevels, r) ==
  LET mw == [NoMw EXCEPT !.mw = "requireAccessLevel",
                         !.levels = requiredLevels]
  IN  IF r.user = NoUser
        THEN Deny(Ran(r, mw), "requireAccessLevel", 401,
                  "Authentication Required")
      ELSE IF ~Includes(requiredLevels, r.user.accessLevel)
        THEN Deny(Ran(r, mw), "requireAccessLevel", 403,
                  "Insufficient Permissions")
      ELSE Passed(r, mw)

\* requirePermission answering a missing capability like a missing principal.
requirePermission_Unauthorized(permission, r) ==
  LET mw == [NoMw EXCEPT !.mw = "requirePermission",
                         !.permission = permission]
  IN  IF r.user = NoUser
        THEN Deny(Ran(r, mw), "requirePermission", 401,
                  "Authentication Required")
      ELSE IF ~hasPermission(r.user, permission)
        THEN Deny(Ran(r, mw), "requirePermission", 401, "Permission Denied")
      ELSE Passed(r, mw)

requirePermission(permission, r) ==
  LET mw == [NoMw EXCEPT !.mw = "requirePermission",
                         !.permission = permission]
  IN  IF r.user = NoUser
        THEN Deny(Ran(r, mw), "requirePermission", 401,
                  "Authentication Required")
      ELSE IF ~hasPermission(r.user, permission)
        THEN Deny(Ran(r, mw), "requirePermission", 403, "Permission Denied")
      ELSE Passed(r, mw)

\* req.params.residentId || req.params.id || req.body.residentId
residentIdOf(params) ==
  IF params.residentId # "" THEN params.residentId
  ELSE IF params.id # "" THEN params.id
  ELSE params.bodyResidentId

\* requireResidentAccess without the Senior override.
requireResidentAccess_AssignedOnly(params, r) ==
  LET mw == [NoMw EXCEPT !.mw = "requireResidentAccess", !.params = params]
      residentId == residentIdOf(params)
  IN  IF residentId = ""
        THEN Deny(Ran(r, mw), "requireResidentAccess", 400, "Bad Request")
      ELSE IF r.user = NoUser
        THEN Deny(Ran(r, mw), "requireResidentAccess", 500,
                  "Access Check Error")
      ELSE IF r.user.accessLevel = "Admin"
        THEN Passed(r, mw)
      ELSE IF ~Includes(r.user.assignedResidents, residentId)
        THEN Deny(Ran(r, mw), "requireResidentAccess", 403, "Access Denied")
      ELSE Passed(r, mw)

\* Reading req.user.accessLevel of an undefined req.user throws; the catch
\* answers 500.
requireResidentAccess(params, r) ==
  LET mw == [NoMw EXCEPT !.mw = "requireResidentAccess", !.params = params]
      residentId == residentIdOf(params)
  IN  IF residentId = ""
        THEN Deny(Ran(r, mw), "requireResidentAccess", 400, "Bad Request")
      ELSE IF r.user = NoUser
        THEN Deny(Ran(r, mw), "requireResidentAccess", 500,
                  "Access Check Error")
      ELSE IF r.user.accessLevel = "Admin"
        THEN Passed(r, mw)
      ELSE IF ~(Includes(r.user.assignedResidents, residentId)
                \/ r.user.accessLevel = "Senior")
        THEN Deny(Ran(r, mw), "requireResidentAccess", 403, "Access Denied")
      ELSE Passed(r, mw)

(***************************************************************************)
(* What a client may present to the gate at the current tick: no token, a  *)
(* token whose signature does not verify, the access token generateTokens  *)
(* signs for a staff member, and a token signed under JWT_SECRET at some   *)
(* tick whose payload carries the userId claim authenticateToken reads.    *)
(***************************************************************************)
Forged(token) == [token EXCEPT !.sig = FALSE]

UserIdTokens(ids) ==
  {jwtSignAt("external", u, NoId, "", AccessTTL, t) : u \in ids, t \in 0..now}

PresentedTokens ==
  {NoToken, Forged(jwtSign("external", 1, NoId, "", AccessTTL))}
    \cup {generateTokens(u).accessToken : u \in StaffIds}
    \cup UserIdTokens(StaffIds)

\* The refresh tokens generateTokens signed for staff member 1 up to now.
RefreshTokens == {generateTokensAt(1, t).refreshToken : t \in 0..now}

LevelLists == {<<"Admin">>, <<"Admin", "Senior">>}

PermissionNames == {"create_logs", "create_care_plans"}

ParamSets ==
  {NoParams,
   [NoParams EXCEPT !.id = "r1"],
   [NoParams EXCEPT !.residentId = "r2", !.bodyResidentId = "r1"]}

\* hp is the call of hasPermission under test: the document it is called
\* on, the permission asked for and what it returned ("none" before).
NoCall == [doc |-> NoDoc, permission |-> "", result |-> "none"]

(***************************************************************************)
(* audit.log: the appends of the audit entries.  calls holds the entries   *)
(* in the order in which they were handed to fs.appendFile, pending the    *)
(* numbers of the calls whose promise has not settled, log the lines of    *)
(* the file, each by the number of its call, failed the calls whose        *)
(* rejection was passed to logger.error, up whether the file can be        *)
(* written.  Spec, SpecGate and SpecPerm do not follow the file: there a   *)
(* request holds the entries it handed over in req.records.                *)
(***************************************************************************)
NoAudit == [calls |-> <<>>, pending |-> {}, log |-> <<>>, failed |-> {},
            up |-> TRUE]

(***************************************************************************)
(* Redaction.  A JSON value is a record: t is its type, v the text of a    *)
(* string, kids the properties of an object or the elements of an array    *)
(* by their keys ("0", "1", ... for an array, as Object.keys gives them).  *)
(***************************************************************************)
NoKids == [k \in {} |-> 0]

Str(v) == [t |-> "string", v |-> v, kids |-> NoKids]
Null == [t |-> "null", v |-> "", kids |-> NoKids]
Obj(kids) == [t |-> "object", v |-> "", kids |-> kids]
Arr(kids) == [t |-> "array", v |-> "", kids |-> kids]

sensitiveFields ==
  {"password", "token", "nhsNumber", "nationalInsuranceNumber", "dateOfBirth",
   "emergencyContact", "nextOfKin", "medicalHistory", "medications"}

Marker == Str("[REDACTED]")

\* typeof x === 'object' && x !== null
IsObject(x) == x.t \in {"object", "array"}

\* if (x): objects and arrays are truthy, a string unless it is empty.
Truthy(x) == IsObject(x) \/ (x.t = "string" /\ x.v # "")

RECURSIVE redactSensitiveData(_)

\* A redaction that marks a value again when it already is the marker.
redactSensitiveData_Remark(data) ==
  IF ~IsObject(data) THEN data
  ELSE Obj([key \in DOMAIN data.kids |->
              LET field == data.kids[key]
                  redacted ==
                    IF key \in sensitiveFields /\ Truthy(field)
                      THEN IF field = Marker
                             THEN Str("[REDACTED][REDACTED]") ELSE Marker
                    ELSE field
              IN  IF IsObject(redacted) THEN redactSensitiveData(redacted)
                  ELSE redacted])

\* redacted = {...data}: the copy of an array is an object with its indexes
\* as keys.
redactSensitiveData(data) ==
  IF ~IsObject(data) THEN data
  ELSE Obj([key \in DOMAIN data.kids |->
              LET field == data.kids[key]
                  redacted ==
                    IF key \in sensitiveFields /\ Truthy(field) THEN Marker
                    ELSE field
              IN  IF IsObject(redacted) THEN redactSensitiveData(redacted)
                  ELSE redacted])

\* No redaction has been asked for.
NoRedaction == [details |-> Null, state |-> "none", once |-> Null,
                twice |-> Null]

(***************************************************************************)
(* Actions.                                                                *)
(***************************************************************************)
Tick ==
  /\ now < MaxTime
  /\ now' = now + 1
  /\ UNCHANGED <<staff, issued, req, hp>>

Idle == req.stage \in {"idle", "done"}

AuthenticateToken(token) ==
  /\ Idle
  /\ req' = authenticateToken(NewReq("authenticateToken", token))
  /\ UNCHANGED <<now, staff, issued, hp>>

OptionalAuth(token) ==
  /\ Idle
  /\ req' = optionalAuth(NewReq("optionalAuth", token))
  /\ UNCHANGED <<now, staff, issued, hp>>

\* The permission middlewares a route lists run after its gate, each once
\* the one before it called next().
RequireAccessLevel(requiredLevels) ==
  /\ req.stage = "chain"
  /\ req' = requireAccessLevel(requiredLevels, req)
  /\ UNCHANGED <<now, staff, issued, hp>>

RequirePermission(permission) ==
  /\ req.stage = "chain"
  /\ req' = requirePermission(permission, req)
  /\ UNCHANGED <<now, staff, issued, hp>>

RequireResidentAccess(params) ==
  /\ req.stage = "chain"
  /\ req' = requireResidentAccess(params, req)
  /\ UNCHANGED <<now, staff, issued, hp>>

\* A handler's answer; one sent after a denial cannot replace it.
Answer(r, code, error) ==
  [r EXCEPT !.stage = "done", !.handlerRan = TRUE,
            !.status = IF r.deniedBy = "" THEN code ELSE @,
            !.error = IF r.deniedBy = "" THEN error ELSE @]

\* The errors a handler throws, by class: an instance of one of the classes
\* of errorHandler.js (statusCode set by its constructor, no errors
\* property), an error of mongoose or jsonwebtoken, or a plain Error.
AppErrors ==
  [ValidationError |-> 400, UnauthorizedError |-> 401, ForbiddenError |-> 403,
   NotFoundError |-> 404, ConflictError |-> 409, RateLimitError |-> 429]

ErrorClasses ==
  DOMAIN AppErrors
    \cup {"mongoose.ValidationError", "CastError", "JsonWebTokenError",
          "TokenExpiredError", "Error"}

NewError(class) ==
  [name |-> IF class = "mongoose.ValidationError" THEN "ValidationError"
            ELSE class,
   statusCode |-> IF class \in DOMAIN AppErrors THEN AppErrors[class] ELSE 0,
   errors |-> class = "mongoose.ValidationError"]

\* errorHandler: the status and the message it sends with res.json.  For a
\* ValidationError without errors Object.values(err.errors) throws a
\* TypeError out of errorHandler, and the final handler of express answers
\* 500 with an HTML page.
errorHandler(err) ==
  IF err.name = "ValidationError"
    THEN IF err.errors
           THEN [status |-> 400, message |-> "Validation Error", json |-> TRUE]
           ELSE [status |-> 500, message |-> "TypeError", json |-> FALSE]
  ELSE IF err.name = "CastError"
    THEN [status |-> 400, message |-> "Invalid ID format", json |-> TRUE]
  ELSE IF err.name = "JsonWebTokenError"
    THEN [status |-> 401, message |-> "Invalid token", json |-> TRUE]
  ELSE IF err.name = "TokenExpiredError"
    THEN [status |-> 401, message |-> "Token expired", json |-> TRUE]
  ELSE IF err.name = "UnauthorizedError"
    THEN [status |-> 401, message |-> "Unauthorized access", json |-> TRUE]
  ELSE IF err.name = "ForbiddenError"
    THEN [status |-> 403, message |-> "Access forbidden", json |-> TRUE]
  ELSE IF err.name = "NotFoundError"
    THEN [status |-> 404, message |-> "Resource not found", json |-> TRUE]
  ELSE IF err.name = "ConflictError"
    THEN [status |-> 409, message |-> "Conflict with existing resource",
          json |-> TRUE]
  ELSE IF err.name = "RateLimitError"
    THEN [status |-> 429,
          message |-> "Too many requests, please try again later",
          json |-> TRUE]
  ELSE [status |-> IF err.statusCode # 0 THEN err.statusCode ELSE 500,
        message |-> "Internal Server Error", json |-> TRUE]

\* asyncHandler passes what the handler threw to errorHandler.  The final
\* handler writes with res.end, past the res.send of auditLogger.
Throw(r, class) ==
  LET response == errorHandler(NewError(class))
      answered == [Answer(r, response.status, response.message)
                     EXCEPT !.html = ~response.json]
  IN  IF response.json THEN auditSend(answered, "") ELSE answered

\* A handler that throws.
ThrowingHandler(class) ==
  /\ req.stage = "chain"
  /\ req' = Throw(req, class)
  /\ UNCHANGED <<now, staff, issued, hp>>

\* A read-only business handler (GET /api/tasks).
Handler ==
  /\ req.stage = "chain"
  /\ req' = auditSend(Answer(req, 200, ""), "/api/tasks")
  /\ UNCHANGED <<now, staff, issued, hp>>

\* GET /api/residents/:id
GetResident(id) ==
  /\ req.stage = "chain"
  /\ req.gate = "authenticateToken"
  /\ LET resident == findResident(id, req.user.facilityId)
     IN  IF resident = NoResident
           THEN req' = Throw(req, "NotFoundError")
           ELSE req' = [auditSend(
                          Answer(auditCareEvent(req,
                                                "RESIDENT_PROFILE_ACCESSED"),
                                 200, ""),
                          "/api/residents") EXCEPT !.read = resident.id]
  /\ UNCHANGED <<now, staff, issued, hp>>

\* requireAIAccess
requireAIAccess(r) ==
  IF ~hasPermission(r.user, "ai_features")
    THEN Deny(r, "requireAIAccess", 403, "Forbidden")
    ELSE r

\* POST /api/ai/analyze-log; residentId is req.body.residentId ("" when the
\* body has none).
AnalyzeLog(residentId) ==
  /\ req.stage = "chain"
  /\ req.gate = "authenticateToken"
  /\ LET r == requireAIAccess(req)
         residentContext == IF residentId # ""
                              THEN findResidentById(residentId)
                              ELSE NoResident
     IN  IF r.deniedBy # ""
           THEN req' = r
           ELSE req' = [auditSend(Answer(r, 200, ""), "/api/ai")
                          EXCEPT !.read = residentContext.id]
  /\ UNCHANGED <<now, staff, issued, hp>>

IncrementLoginAttempts(s) ==
  /\ \/ staff[s].loginAttempts < MaxLoginAttempts
     \/ staff[s].lockUntil # NoDate /\ staff[s].lockUntil < now
  /\ staff' = [staff EXCEPT ![s] = incrementLoginAttempts(staff[s], staff[s])]
  /\ UNCHANGED <<now, issued, req, hp>>

ResetLoginAttempts(s) ==
  /\ staff[s] # resetLoginAttempts(staff[s])
  /\ staff' = [staff EXCEPT ![s] = resetLoginAttempts(staff[s])]
  /\ UNCHANGED <<now, issued, req, hp>>

\* PUT /api/staff/:id.  The body is written to the document as it came:
\* updateData = {...req.body}.  "", "absent" and NoDate stand for a field the
\* body does not have.
Bodies ==
  {[role |-> "", accessLevel |-> "", isActive |-> "false", lockUntil |-> NoDate],
   [role |-> "", accessLevel |-> "", isActive |-> "absent",
    lockUntil |-> MaxTime]}

ApplyBody(doc, body) ==
  [doc EXCEPT !.role = IF body.role # "" THEN body.role ELSE @,
              !.accessLevel = IF body.accessLevel # ""
                                THEN body.accessLevel ELSE @,
              !.isActive = IF body.isActive = "absent" THEN @
                           ELSE body.isActive = "true",
              !.lockUntil = IF body.lockUntil = NoDate THEN @
                            ELSE body.lockUntil]

StaffPut(target, body) ==
  /\ req.stage = "chain"
  /\ req.gate = "authenticateToken"
  /\ LET doc == findById(target)
         isOwnProfile == doc.id = req.user.id
         isAdmin == req.user.role = "Admin"
     IN  IF doc = NoDoc
           THEN /\ req' = Throw(req, "NotFoundError")
                /\ UNCHANGED staff
         ELSE IF ~isOwnProfile /\ ~isAdmin
           THEN /\ req' = Throw(req, "ForbiddenError")
                /\ UNCHANGED staff
         ELSE IF body.role # "" /\ ~isAdmin
           THEN /\ req' = Throw(req, "ForbiddenError")
                /\ UNCHANGED staff
         ELSE /\ req' = auditSend(
                          Answer(auditCareEvent(req, "STAFF_PROFILE_UPDATED"),
                                 200, ""),
                          "/api/staff")
              /\ staff' = [staff EXCEPT ![target] = ApplyBody(@, body)]
  /\ UNCHANGED <<now, issued, hp>>

(***************************************************************************)
(* The routes of /api/auth.  issued[s] is what the client of staff member  *)
(* s holds, for the clients the model follows: the token pair and the      *)
(* reset token it was sent last.                                           *)
(***************************************************************************)
NoWallet == [accessToken |-> NoToken, refreshToken |-> NoToken,
             resetToken |-> NoToken]

Route(name, token) == [NoReq EXCEPT !.gate = name, !.token = token]

\* The client of staff member s receives the tokens sent to it.
Receive(s, tokens) ==
  IF s \in DOMAIN issued
    THEN [issued EXCEPT ![s] = [f \in DOMAIN NoWallet |->
                                  IF f \in DOMAIN tokens THEN tokens[f]
                                  ELSE issued[s][f]]]
    ELSE issued

\* Staff.findOne({email, isActive: true}), s the holder of the email.
findActive(s) == IF staff[s].isActive THEN staff[s] ELSE NoDoc

\* The pre('save') hook: a modified password is hashed (again).
preSave(doc, passwordModified) ==
  IF passwordModified
    THEN [doc EXCEPT !.password = bcryptRehash(@), !.passwordChangedAt = now]
    ELSE doc

\* The 200 of an /api/auth route, after the care event the route audits
\* ("" when it audits none).
authJson(r, careEventType) ==
  auditSend(Answer(IF careEventType = "" THEN r
                   ELSE auditCareEvent(r, careEventType), 200, ""),
            "/api/auth")

Login(s, password) ==
  /\ Idle
  /\ LET user == findActive(s)
         r == Route("POST /api/auth/login", NoToken)
         tokens == generateTokens(user.id)
     IN  IF user = NoDoc \/ ~bcryptCompare(password, user.password)
           THEN /\ req' = Throw(r, "UnauthorizedError")
                /\ UNCHANGED <<staff, issued>>
           ELSE /\ staff' = [staff EXCEPT ![s] = preSave(@, FALSE)]
                /\ issued' = Receive(s, tokens)
                /\ req' = [authJson(r, "USER_LOGIN")
                             EXCEPT !.granted = user.id]
  /\ UNCHANGED <<now, hp>>

Refresh(token) ==
  /\ Idle
  /\ LET r == Route("POST /api/auth/refresh", token)
         user == findById(token.id)
         tokens == generateTokens(user.id)
     IN  IF token.kind = "none" \/ jwtVerify(token) # "ok" \/ user = NoDoc
            \/ ~user.isActive
           THEN /\ req' = Throw(r, "UnauthorizedError")
                /\ UNCHANGED issued
           ELSE /\ issued' = Receive(user.id, tokens)
                /\ req' = [authJson(r, "") EXCEPT !.granted = user.id]
  /\ UNCHANGED <<now, staff, hp>>

ForgotPassword(s) ==
  /\ Idle
  /\ LET user == findActive(s)
         r == Route("POST /api/auth/forgot-password", NoToken)
         resetToken == jwtSign("reset", NoId, user.id, "password-reset",
                               ResetTTL)
     IN  /\ req' = authJson(r, IF user = NoDoc THEN ""
                                ELSE "PASSWORD_RESET_REQUEST")
         /\ IF user = NoDoc
              THEN UNCHANGED <<staff, issued>>
              ELSE /\ staff' =
                        [staff EXCEPT ![s] =
                           preSave([@ EXCEPT
                                      !.passwordResetToken = resetToken,
                                      !.passwordResetExpires =
                                         now + ResetTTL * TicksPerSec],
                                   FALSE)]
                   /\ issued' = Receive(s, [resetToken |-> resetToken])
  /\ UNCHANGED <<now, hp>>

ResetPassword(token, password) ==
  /\ Idle
  /\ LET r == Route("POST /api/auth/reset-password", token)
         found == findById(token.id)
         user == IF /\ found # NoDoc
                    /\ found.passwordResetToken = token
                    /\ found.passwordResetExpires > now
                    /\ found.isActive
                   THEN found ELSE NoDoc
     IN  IF token.kind = "none" \/ jwtVerify(token) # "ok"
            \/ token.purpose # "password-reset" \/ user = NoDoc
           THEN /\ req' = Throw(r, "UnauthorizedError")
                /\ UNCHANGED staff
           ELSE /\ staff' =
                     [staff EXCEPT ![user.id] =
                        preSave([@ EXCEPT
                                   !.password = bcryptHash(password),
                                   !.passwordResetToken = NoToken,
                                   !.passwordResetExpires = NoDate,
                                   !.passwordChangedAt = now],
                                TRUE)]
                /\ req' = authJson(r, "PASSWORD_RESET_COMPLETED")
  /\ UNCHANGED <<now, issued, hp>>

VerifyToken(token) ==
  /\ Idle
  /\ LET r == Route("GET /api/auth/verify-token", token)
         user == findById(token.id)
     IN  IF token.kind = "none" \/ jwtVerify(token) # "ok" \/ user = NoDoc
            \/ ~user.isActive
           THEN req' = Throw(r, "UnauthorizedError")
           ELSE req' = authJson(r, "")
  /\ UNCHANGED <<now, staff, issued, hp>>

\* The tokens the clients hold.
Held ==
  {t \in UNION {{issued[s].accessToken, issued[s].refreshToken,
                 issued[s].resetToken} : s \in DOMAIN issued} :
     t.kind # "none"}

SessionTokens == {NoToken} \cup Held \cup UserIdTokens({1})

(***************************************************************************)
(* Spec: logins, refreshes and password resets of staff member 1, whose    *)
(* client keeps the tokens it is sent, and requests through the gate.      *)
(***************************************************************************)
Init ==
  /\ now = 0
  /\ staff = [s \in StaffIds |->
                IF s = 1 THEN NewStaff(1, "Carer", <<"r1">>, "p")
                         ELSE NewStaff(2, "Senior", <<>>, "q")]
  /\ issued = [s \in {1} |-> NoWallet]
  /\ req = NoReq
  /\ hp = NoCall
  /\ audit = NoAudit
  /\ rd = NoRedaction
  /\ loaded = NoLoaded
  /\ dailyLog = NoLog
  /\ hook = NoHook
  /\ plan = NewCarePlan

Next ==
  \/ Tick /\ UNCHANGED <<audit, rd, loaded, dailyLog, hook, plan>>
  \/ \E password \in Passwords : Login(1, password) /\ UNCHANGED <<audit, rd, loaded, dailyLog, hook, plan>>
  \/ \E token \in SessionTokens : Refresh(token) /\ UNCHANGED <<audit, rd, loaded, dailyLog, hook, plan>>
  \/ ForgotPassword(1) /\ UNCHANGED <<audit, rd, loaded, dailyLog, hook, plan>>
  \/ \E token \in SessionTokens : ResetPassword(token, "q") /\ UNCHANGED <<audit, rd, loaded, dailyLog, hook, plan>>
  \/ \E token \in SessionTokens : VerifyToken(token) /\ UNCHANGED <<audit, rd, loaded, dailyLog, hook, plan>>
  \/ \E token \in SessionTokens : AuthenticateToken(token) /\ UNCHANGED <<audit, rd, loaded, dailyLog, hook, plan>>
  \/ \E token \in SessionTokens : OptionalAuth(token) /\ UNCHANGED <<audit, rd, loaded, dailyLog, hook, plan>>
  \/ Handler /\ UNCHANGED <<audit, rd, loaded, dailyLog, hook, plan>>

Spec == Init /\ [][Next]_vars

(***************************************************************************)
(* SpecGate: requests through the gate while accounts are locked, unlocked *)
(* and disabled.  Failed logins are counted against staff member 1 and     *)
(* profile updates are written to its record.                              *)
(***************************************************************************)
InitGate ==
  /\ now = 0
  /\ \E level \in AccessLevels :
       staff = [s \in StaffIds |->
                  IF s = 1 THEN NewStaff(1, level, <<"r1">>, "p")
                           ELSE NewStaff(2, "Admin", <<>>, "q")]
  /\ issued = [s \in {} |-> NoWallet]
  /\ req = NoReq
  /\ hp = NoCall
  /\ audit = NoAudit
  /\ rd = NoRedaction
  /\ loaded = NoLoaded
  /\ dailyLog = NoLog
  /\ hook = NoHook
  /\ plan = NewCarePlan

NextGate ==
  \/ Tick /\ UNCHANGED <<audit, rd, loaded, dailyLog, hook, plan>>
  \/ \E token \in PresentedTokens : AuthenticateToken(token) /\ UNCHANGED <<audit, rd, loaded, dailyLog, hook, plan>>
  \/ \E token \in PresentedTokens : OptionalAuth(token) /\ UNCHANGED <<audit, rd, loaded, dailyLog, hook, plan>>
  \/ \E levels \in LevelLists : RequireAccessLevel(levels) /\ UNCHANGED <<audit, rd, loaded, dailyLog, hook, plan>>
  \/ \E permission \in PermissionNames : RequirePermission(permission) /\ UNCHANGED <<audit, rd, loaded, dailyLog, hook, plan>>
  \/ \E params \in ParamSets : RequireResidentAccess(params) /\ UNCHANGED <<audit, rd, loaded, dailyLog, hook, plan>>
  \/ Handler /\ UNCHANGED <<audit, rd, loaded, dailyLog, hook, plan>>
  \/ \E id \in Residents : GetResident(id) /\ UNCHANGED <<audit, rd, loaded, dailyLog, hook, plan>>
  \/ \E residentId \in Residents \cup {""} : AnalyzeLog(residentId) /\ UNCHANGED <<audit, rd, loaded, dailyLog, hook, plan>>
  \/ \E body \in Bodies : StaffPut(1, body) /\ UNCHANGED <<audit, rd, loaded, dailyLog, hook, plan>>
  \/ IncrementLoginAttempts(1) /\ UNCHANGED <<audit, rd, loaded, dailyLog, hook, plan>>
  \/ ResetLoginAttempts(1) /\ UNCHANGED <<audit, rd, loaded, dailyLog, hook, plan>>
  \/ \E s \in StaffIds, password \in Passwords : Login(s, password) /\ UNCHANGED <<audit, rd, loaded, dailyLog, hook, plan>>
  \/ \E token \in RefreshTokens : Refresh(token) /\ UNCHANGED <<audit, rd, loaded, dailyLog, hook, plan>>
  \/ \E token \in RefreshTokens : VerifyToken(token) /\ UNCHANGED <<audit, rd, loaded, dailyLog, hook, plan>>

SpecGate == InitGate /\ [][NextGate]_vars

(***************************************************************************)
(* SpecPerm: hasPermission called on staff documents of every access       *)
(* level, the schema's three and values outside them, for the permission   *)
(* names of the table and names outside it.                                *)
(***************************************************************************)
PermLevels == AccessLevels \cup {"Manager", ""}

PermNames ==
  {"view_residents", "create_logs", "view_care_plans", "complete_tasks",
   "create_care_plans", "view_reports", "manage_tasks", "ai_features",
   "delete_staff", "*"}

PermDocs ==
  {[NewStaff(1, level, <<>>, "p") EXCEPT !.role = role] :
     level \in PermLevels, role \in {"Carer", "Admin"}}

AsResult(b) == IF b THEN "true" ELSE "false"

HasPermission ==
  /\ hp.result = "none"
  /\ hp' = [hp EXCEPT !.result = AsResult(hasPermission(hp.doc, hp.permission))]
  /\ UNCHANGED <<now, staff, issued, req>>

NextCall ==
  /\ hp.result # "none"
  /\ \E doc \in PermDocs, permission \in PermNames :
       hp' = [doc |-> doc, permission |-> permission, result |-> "none"]
  /\ UNCHANGED <<now, staff, issued, req>>

InitPerm ==
  /\ now = 0
  /\ staff = [s \in StaffIds |-> NewStaff(s, "Carer", <<>>, "p")]
  /\ issued = [s \in {} |-> NoWallet]
  /\ req = NoReq
  /\ \E doc \in PermDocs, permission \in PermNames :
       hp = [doc |-> doc, permission |-> permission, result |-> "none"]
  /\ audit = NoAudit
  /\ rd = NoRedaction
  /\ loaded = NoLoaded
  /\ dailyLog = NoLog
  /\ hook = NoHook
  /\ plan = NewCarePlan

NextPerm ==
  \/ HasPermission /\ UNCHANGED <<audit, rd, loaded, dailyLog, hook, plan>>
  \/ NextCall /\ UNCHANGED <<audit, rd, loaded, dailyLog, hook, plan>>

SpecPerm == InitPerm /\ [][NextPerm]_vars

(***************************************************************************)
(* SpecAudit: the audit file.  Every entry a request hands to              *)
(* fs.appendFile becomes a call whose promise settles later, on its own:   *)
(* no caller awaits it.  A resolved call has written its line; a rejected  *)
(* one goes to the .catch that passes the error to logger.error.           *)
(***************************************************************************)
MaxCalls == 3

\* The entries this step handed to fs.appendFile.
Handed ==
  IF Idle THEN req'.records
  ELSE SubSeq(req'.records, Len(req.records) + 1, Len(req'.records))

Recorded ==
  /\ Len(audit.calls) + Len(Handed) <= MaxCalls
  /\ audit' = [audit EXCEPT
                 !.calls = @ \o Handed,
                 !.pending = @ \cup (Len(audit.calls) + 1
                                       .. Len(audit.calls) + Len(Handed))]
  /\ UNCHANGED <<rd, loaded, dailyLog, hook, plan>>

\* fs.appendFile resolves: the line is in the file.
AppendResolved(i) ==
  /\ i \in audit.pending
  /\ audit.up
  /\ audit' = [audit EXCEPT !.pending = @ \ {i}, !.log = Append(@, i)]
  /\ UNCHANGED <<now, staff, issued, req, hp, rd, loaded, dailyLog, hook, plan>>

\* fs.appendFile rejects: .catch(err => logger.error(...)).
AppendRejected(i) ==
  /\ i \in audit.pending
  /\ ~audit.up
  /\ audit' = [audit EXCEPT !.pending = @ \ {i}, !.failed = @ \cup {i}]
  /\ UNCHANGED <<now, staff, issued, req, hp, rd, loaded, dailyLog, hook, plan>>

\* The file stops accepting writes, and accepts them again.
SinkFails ==
  /\ audit.up
  /\ audit' = [audit EXCEPT !.up = FALSE]
  /\ UNCHANGED <<now, staff, issued, req, hp, rd, loaded, dailyLog, hook, plan>>

SinkRecovers ==
  /\ ~audit.up
  /\ audit' = [audit EXCEPT !.up = TRUE]
  /\ UNCHANGED <<now, staff, issued, req, hp, rd, loaded, dailyLog, hook, plan>>

AuditTokens == {NoToken} \cup UserIdTokens({1})

InitAudit ==
  /\ now = 0
  /\ staff = [s \in StaffIds |->
                IF s = 1 THEN NewStaff(1, "Senior", <<"r1">>, "p")
                         ELSE NewStaff(2, "Admin", <<>>, "q")]
  /\ issued = [s \in {} |-> NoWallet]
  /\ req = NoReq
  /\ hp = NoCall
  /\ audit = NoAudit
  /\ rd = NoRedaction
  /\ loaded = NoLoaded
  /\ dailyLog = NoLog
  /\ hook = NoHook
  /\ plan = NewCarePlan

NextAudit ==
  \/ \E token \in AuditTokens : AuthenticateToken(token) /\ Recorded
  \/ \E body \in Bodies : StaffPut(1, body) /\ Recorded
  \/ \E id \in Residents : GetResident(id) /\ Recorded
  \/ Handler /\ Recorded
  \/ \E i \in 1..MaxCalls : AppendResolved(i)
  \/ \E i \in 1..MaxCalls : AppendRejected(i)
  \/ SinkFails
  \/ SinkRecovers

SpecAudit == InitAudit /\ [][NextAudit]_vars

(***************************************************************************)
(* SpecRedact: redactSensitiveData on the details objects handed to the    *)
(* audit functions: objects and arrays nested to MaxDepth along one path,  *)
(* the other property of an object a primitive.                            *)
(***************************************************************************)
MaxDepth == 3

Keys == {"password", "note"}

Primitives == {Str("s"), Str(""), Marker, Null}

Details[d \in 0..MaxDepth] ==
  IF d = 0 THEN Primitives
  ELSE Primitives
         \cup {Obj(NoKids)}
         \cup {Obj(k :> x) : k \in Keys, x \in Details[d - 1]}
         \cup {Obj((k :> x) @@ (other :> p)) :
                 k \in Keys, other \in Keys, x \in Details[d - 1],
                 p \in Primitives}
         \cup {Arr("0" :> x) : x \in Details[d - 1]}

InitRedact ==
  /\ now = 0
  /\ staff = [s \in StaffIds |->
                IF s = 1 THEN NewStaff(1, "Senior", <<"r1">>, "p")
                         ELSE NewStaff(2, "Admin", <<>>, "q")]
  /\ issued = [s \in {} |-> NoWallet]
  /\ req = NoReq
  /\ hp = NoCall
  /\ audit = NoAudit
  /\ \E details \in Details[MaxDepth] :
       rd = [NoRedaction EXCEPT !.details = details]
  /\ loaded = NoLoaded
  /\ dailyLog = NoLog
  /\ hook = NoHook
  /\ plan = NewCarePlan

\* details: redactSensitiveData(details)
Redact ==
  /\ rd.state = "none"
  /\ rd' = [rd EXCEPT !.state = "once",
                      !.once = redactSensitiveData(rd.details)]
  /\ UNCHANGED <<now, staff, issued, req, hp, audit, loaded, dailyLog, hook, plan>>

\* The redacted details are redacted again.
RedactAgain ==
  /\ rd.state = "once"
  /\ rd' = [rd EXCEPT !.state = "twice",
                      !.twice = redactSensitiveData(rd.once)]
  /\ UNCHANGED <<now, staff, issued, req, hp, audit, loaded, dailyLog, hook, plan>>

NextRedact ==
  \/ Redact
  \/ RedactAgain

SpecRedact == InitRedact /\ [][NextRedact]_vars

(***************************************************************************)
(* SpecAbort: requests to /api/residents and /api/staff whose connection   *)
(* the client may close once the gate has passed them on.  Nothing listens *)
(* for the close: the handler runs on and sends its response as it would   *)
(* have.  A handler that has been passed a request ends (weak fairness).   *)
(***************************************************************************)
Abort ==
  /\ req.stage = "chain"
  /\ ~req.aborted
  /\ req' = [req EXCEPT !.aborted = TRUE]
  /\ UNCHANGED <<now, staff, issued, hp>>

NextAbort ==
  \/ Tick /\ UNCHANGED <<audit, rd, loaded, dailyLog, hook, plan>>
  \/ \E token \in PresentedTokens :
       AuthenticateToken(token) /\ UNCHANGED <<audit, rd, loaded, dailyLog, hook, plan>>
  \/ Abort /\ UNCHANGED <<audit, rd, loaded, dailyLog, hook, plan>>
  \/ \E id \in Residents : GetResident(id) /\ UNCHANGED <<audit, rd, loaded, dailyLog, hook, plan>>
  \/ \E body \in Bodies : StaffPut(1, body) /\ UNCHANGED <<audit, rd, loaded, dailyLog, hook, plan>>

Handlers ==
  /\ \/ \E id \in Residents : GetResident(id)
     \/ \E body \in Bodies : StaffPut(1, body)
  /\ UNCHANGED <<audit, rd, loaded, dailyLog, hook, plan>>

SpecAbort == InitAudit /\ [][NextAbort]_vars /\ WF_vars(Handlers)

(***************************************************************************)
(* SpecLock: callers load staff member 1 and call incrementLoginAttempts   *)
(* or resetLoginAttempts on their copy; updateOne applies the update to    *)
(* the stored document.  MaxAttempts caps the count the model follows.     *)
(***************************************************************************)
MaxAttempts == 6

\* Staff.findOne / findById: the caller gets a copy of the stored document.
LoadStaff(c, s) ==
  /\ loaded[c] = NoDoc
  /\ loaded' = [loaded EXCEPT ![c] = staff[s]]
  /\ UNCHANGED <<now, staff, issued, req, hp, audit, rd, dailyLog, hook, plan>>

\* this.incrementLoginAttempts()
IncrementLoaded(c) ==
  /\ loaded[c] # NoDoc
  /\ staff[loaded[c].id].loginAttempts < MaxAttempts
  /\ staff' = [staff EXCEPT ![loaded[c].id] =
                 incrementLoginAttempts(loaded[c], @)]
  /\ loaded' = [loaded EXCEPT ![c] = NoDoc]
  /\ UNCHANGED <<now, issued, req, hp, audit, rd, dailyLog, hook, plan>>

\* this.resetLoginAttempts()
ResetLoaded(c) ==
  /\ loaded[c] # NoDoc
  /\ staff' = [staff EXCEPT ![loaded[c].id] = resetLoginAttempts(@)]
  /\ loaded' = [loaded EXCEPT ![c] = NoDoc]
  /\ UNCHANGED <<now, issued, req, hp, audit, rd, dailyLog, hook, plan>>

NextLock ==
  \/ Tick /\ UNCHANGED <<audit, rd, loaded, dailyLog, hook, plan>>
  \/ \E c \in Callers : LoadStaff(c, 1)
  \/ \E c \in Callers : IncrementLoaded(c)
  \/ \E c \in Callers : ResetLoaded(c)

SpecLock == InitAudit /\ [][NextLock]_vars

(***************************************************************************)
(* SpecReset: POST /reset-password requests served side by side.  A        *)
(* request finds the staff document by the token (Staff.findOne) and at    *)
(* a later turn of the event loop, after bcrypt.hash, saves its copy; req  *)
(* holds the response sent last.  All of it happens within one second, so  *)
(* that /forgot-password signs the same reset token each time.             *)
(***************************************************************************)
ResetFind(c, token) ==
  /\ loaded[c] = NoDoc
  /\ LET r == Route("POST /api/auth/reset-password", token)
         found == findById(token.id)
         user == IF /\ found # NoDoc
                    /\ found.passwordResetToken = token
                    /\ found.passwordResetExpires > now
                    /\ found.isActive
                   THEN found ELSE NoDoc
     IN  IF token.kind = "none" \/ jwtVerify(token) # "ok"
            \/ token.purpose # "password-reset" \/ user = NoDoc
           THEN /\ req' = Throw(r, "UnauthorizedError")
                /\ UNCHANGED <<loaded, dailyLog, hook, plan>>
           ELSE /\ loaded' = [loaded EXCEPT ![c] = user]
                /\ UNCHANGED req
  /\ UNCHANGED <<now, staff, issued, hp, audit, rd, dailyLog, hook, plan>>

\* user.save() writes the paths the request modified.
ResetSave(c, password) ==
  /\ loaded[c] # NoDoc
  /\ staff' = [staff EXCEPT ![loaded[c].id] =
                 preSave([@ EXCEPT !.password = bcryptHash(password),
                                   !.passwordResetToken = NoToken,
                                   !.passwordResetExpires = NoDate,
                                   !.passwordChangedAt = now],
                         TRUE)]
  /\ req' = authJson(Route("POST /api/auth/reset-password",
                           loaded[c].passwordResetToken),
                     "PASSWORD_RESET_COMPLETED")
  /\ loaded' = [loaded EXCEPT ![c] = NoDoc]
  /\ UNCHANGED <<now, issued, hp, audit, rd, dailyLog, hook, plan>>

NextReset ==
  \/ ForgotPassword(1) /\ UNCHANGED <<audit, rd, loaded, dailyLog, hook, plan>>
  \/ \E c \in Callers, token \in SessionTokens : ResetFind(c, token)
  \/ \E c \in Callers, password \in Passwords : ResetSave(c, password)

SpecReset == Init /\ [][NextReset]_vars

(***************************************************************************)
(* SpecStaff: PUT /api/staff/:id requests of a Carer, a Senior or an Admin *)
(* (staff member 1) and of an Admin (staff member 2), with bodies that     *)
(* name role or accessLevel.                                               *)
(***************************************************************************)
PrivilegeBodies ==
  {[role |-> "Admin", accessLevel |-> "", isActive |-> "absent",
    lockUntil |-> NoDate],
   [role |-> "", accessLevel |-> "Admin", isActive |-> "absent",
    lockUntil |-> NoDate],
   [role |-> "", accessLevel |-> "Carer", isActive |-> "absent",
    lockUntil |-> NoDate]}

NextStaff ==
  \/ \E token \in UserIdTokens(StaffIds) :
       AuthenticateToken(token) /\ UNCHANGED <<audit, rd, loaded, dailyLog, hook, plan>>
  \/ \E target \in StaffIds, body \in PrivilegeBodies \cup Bodies :
       StaffPut(target, body) /\ UNCHANGED <<audit, rd, loaded, dailyLog, hook, plan>>

SpecStaff == InitGate /\ [][NextStaff]_vars

(***************************************************************************)
(* SpecError: requests that pass the gate and whose handler throws.        *)
(***************************************************************************)
NextError ==
  \/ Tick /\ UNCHANGED <<audit, rd, loaded, dailyLog, hook, plan>>
  \/ \E token \in PresentedTokens :
       AuthenticateToken(token) /\ UNCHANGED <<audit, rd, loaded, dailyLog, hook, plan>>
  \/ \E class \in ErrorClasses :
       ThrowingHandler(class) /\ UNCHANGED <<audit, rd, loaded, dailyLog, hook, plan>>

SpecError == InitGate /\ [][NextError]_vars

(***************************************************************************)
(* SpecLogs: PUT /api/daily-logs/:id on a log that staff member 1 or 2     *)
(* created at tick 0.  EditWindow ticks stand for the 24 hours, MaxEdits   *)
(* caps the updates the model follows.                                     *)
(***************************************************************************)
EditWindow == 2
MaxEdits == 2

\* (new Date() - log.timestamp) / (1000 * 60 * 60) > 24.  With timestamp
\* undefined the difference is NaN, and NaN > 24 is false.
PastEditWindow(log) ==
  log.timestamp # NoDate /\ now - log.timestamp > EditWindow

\* PUT /api/daily-logs/:id with a valid body.
DailyLogPut(id) ==
  /\ req.stage = "chain"
  /\ req.gate = "authenticateToken"
  /\ dailyLog.edits < MaxEdits
  /\ LET log == IF dailyLog.id = id THEN dailyLog ELSE NoLog
         canEdit == log.createdBy = req.user.id
                      \/ req.user.role \in {"Admin", "Senior"}
     IN  IF log = NoLog
           THEN /\ req' = Throw(req, "NotFoundError")
                /\ UNCHANGED <<dailyLog, hook, plan>>
         ELSE IF ~canEdit
           THEN /\ req' = Throw(req, "ForbiddenError")
                /\ UNCHANGED <<dailyLog, hook, plan>>
         ELSE IF req.user.role = "Carer" /\ PastEditWindow(log)
           THEN /\ req' = Throw(req, "ForbiddenError")
                /\ UNCHANGED <<dailyLog, hook, plan>>
         ELSE /\ dailyLog' = [dailyLog EXCEPT !.updatedBy = req.user.id,
                                              !.edits = @ + 1]
              /\ req' = auditSend(
                          Answer(auditCareEvent(req, "DAILY_LOG_UPDATED"),
                                 200, ""),
                          "/api/daily-logs")
  /\ UNCHANGED <<now, staff, issued, hp, audit, rd, loaded, hook, plan>>

InitLogs ==
  /\ now = 0
  /\ \E level \in AccessLevels :
       staff = [s \in StaffIds |->
                  IF s = 1 THEN NewStaff(1, level, <<"r1">>, "p")
                           ELSE NewStaff(2, "Admin", <<>>, "q")]
  /\ issued = [s \in {} |-> NoWallet]
  /\ req = NoReq
  /\ hp = NoCall
  /\ audit = NoAudit
  /\ rd = NoRedaction
  /\ loaded = NoLoaded
  /\ \E createdBy \in StaffIds : dailyLog = NewLog("l1", createdBy, 0)
  /\ hook = NoHook
  /\ plan = NewCarePlan

NextLogs ==
  \/ Tick /\ UNCHANGED <<audit, rd, loaded, dailyLog, hook, plan>>
  \/ \E token \in PresentedTokens :
       AuthenticateToken(token) /\ UNCHANGED <<audit, rd, loaded, dailyLog, hook, plan>>
  \/ \E id \in {"l1", "l2"} : DailyLogPut(id)

SpecLogs == InitLogs /\ [][NextLogs]_vars

(***************************************************************************)
(* SpecHook: requests to the webhook endpoints, each endpoint with its     *)
(* secret set or unset, signed by a sender that holds one of the secrets,  *)
(* over the body as sent or over its compact form, or not signed.          *)
(***************************************************************************)
Secrets == [e \in Endpoints |-> IF e = "ai-model-callback" THEN "k1" ELSE "k2"]

Signatures ==
  {NoSignature}
    \cup {HmacSha256(Secrets[e], text) :
            e \in Endpoints,
            text \in RawBodies \cup {JSONStringifyParsed(raw) : raw \in RawBodies}}

\* verifyWebhookSignature(secret)
VerifyWebhookSignature(endpoint, raw, signature) ==
  /\ hook.stage \in {"idle", "done"}
  /\ LET secret == hook.secrets[endpoint]
         h == [hook EXCEPT !.endpoint = endpoint, !.raw = raw,
                           !.signature = signature, !.status = 0,
                           !.handlerRan = FALSE]
         digest == HmacSha256(secret, JSONStringifyParsed(raw))
     IN  IF secret = ""
           THEN hook' = [h EXCEPT !.stage = "chain"]
         ELSE IF signature = NoSignature
           THEN hook' = [h EXCEPT !.stage = "done", !.status = 401]
         ELSE IF digest # signature
           THEN hook' = [h EXCEPT !.stage = "done", !.status = 401]
         ELSE hook' = [h EXCEPT !.stage = "chain"]
  /\ UNCHANGED <<now, staff, issued, req, hp, audit, rd, loaded, dailyLog, plan>>

\* The handler of the endpoint.
WebhookHandler ==
  /\ hook.stage = "chain"
  /\ hook' = [hook EXCEPT !.stage = "done", !.status = 200,
                          !.handlerRan = TRUE]
  /\ UNCHANGED <<now, staff, issued, req, hp, audit, rd, loaded, dailyLog, plan>>

InitHook ==
  /\ now = 0
  /\ staff = [s \in StaffIds |->
                IF s = 1 THEN NewStaff(1, "Senior", <<"r1">>, "p")
                         ELSE NewStaff(2, "Admin", <<>>, "q")]
  /\ issued = [s \in {} |-> NoWallet]
  /\ req = NoReq
  /\ hp = NoCall
  /\ audit = NoAudit
  /\ rd = NoRedaction
  /\ loaded = NoLoaded
  /\ dailyLog = NoLog
  /\ \E set \in SUBSET Endpoints :
       hook = [NoHook EXCEPT
                 !.secrets = [e \in Endpoints |->
                                IF e \in set THEN Secrets[e] ELSE ""]]
  /\ plan = NewCarePlan

NextHook ==
  \/ \E endpoint \in Endpoints, raw \in RawBodies, signature \in Signatures :
       VerifyWebhookSignature(endpoint, raw, signature)
  \/ WebhookHandler

SpecHook == InitHook /\ [][NextHook]_vars

(***************************************************************************)
(* SpecPlan: staff members acknowledge a care plan and new versions of it  *)
(* are created, in any order, as time passes.                              *)
(***************************************************************************)
MaxVersion == 3
Reasons == {"review", "incident"}

AddReadReceipt(staffId) ==
  /\ plan' = addReadReceipt(plan, staffId, now)
  /\ UNCHANGED <<now, staff, issued, req, hp, audit, rd, loaded, dailyLog, hook>>

CreateNewVersion(reasonForChange, updatedBy) ==
  /\ plan.currentVersion < MaxVersion
  /\ plan' = createNewVersion(plan, reasonForChange, updatedBy)
  /\ UNCHANGED <<now, staff, issued, req, hp, audit, rd, loaded, dailyLog, hook>>

NextPlan ==
  \/ Tick /\ UNCHANGED <<audit, rd, loaded, dailyLog, hook, plan>>
  \/ \E staffId \in StaffIds : AddReadReceipt(staffId)
  \/ \E reasonForChange \in Reasons, updatedBy \in StaffIds :
       CreateNewVersion(reasonForChange, updatedBy)

SpecPlan == InitAudit /\ [][NextPlan]_vars

(***************************************************************************)
(* Properties.                                                             *)
(***************************************************************************)
\* The staff member a token names, by the claim it carries.
TokenSubject(token) == IF token.userId # NoId THEN token.userId ELSE token.id

\* The record is disabled or its lock time is in the future.
DisabledOrLocked(doc) ==
  ~doc.isActive \/ (doc.lockUntil # NoDate /\ doc.lockUntil > now)

\* This step is authenticateToken answering a new request.
GateStep ==
  /\ Idle
  /\ req' # req
  /\ req'.gate = "authenticateToken"

\* C1: whatever token names a staff record that is inactive or whose lock
\* time is in the future, and whatever the record's role, authenticateToken
\* answers 401 or 403, resolves no principal and the request ends there: the
\* handler behind the gate is not invoked.
C1_DisabledOrLockedDenied ==
  [][(/\ GateStep
      /\ TokenSubject(req'.token) \in StaffIds
      /\ DisabledOrLocked(staff[TokenSubject(req'.token)]))
       => (/\ req'.status \in {401, 403}
           /\ req'.stage = "done"
           /\ req'.user = NoUser
           /\ ~req'.handlerRan)]_vars

\* C1 witness: a locked, active account met the gate and was answered 401.
C1_Witness ==
  /\ req.gate = "authenticateToken"
  /\ req.doc.id # NoId
  /\ req.doc.isActive
  /\ req.doc.lockFuture
  /\ req.status = 401
  /\ req.error = "Account Locked"

\* C5: no permission middleware calls next() without a resolved principal,
\* no handler runs once a middleware has sent a denial, a denial ends the
\* request, and behind authenticateToken no permission middleware and no
\* handler runs before a principal is resolved.
C5_StagesInOrder ==
  /\ req.last.next => req.user # NoUser
  /\ req.handlerRan => req.deniedBy = ""
  /\ req.deniedBy # "" => req.stage = "done"
  /\ (req.gate = "authenticateToken" /\ (req.last # NoMw \/ req.handlerRan))
       => req.user # NoUser

\* C5 witness: a permission middleware met a request with no principal and
\* ended it.
C5_Witness ==
  /\ req.gate = "optionalAuth"
  /\ req.user = NoUser
  /\ req.deniedBy = "requirePermission"
  /\ req.status = 401
  /\ ~req.handlerRan

\* C7: once a staff record is inactive, a request carrying an unexpired,
\* validly signed token for that staff member is answered 401 "Account
\* Disabled" by the gate and ends there.
C7_DisabledOnNextRequest ==
  [][(/\ GateStep
      /\ jwtVerify(req'.token) = "ok"
      /\ TokenSubject(req'.token) \in StaffIds
      /\ ~staff[TokenSubject(req'.token)].isActive)
       => (/\ req'.status = 401
           /\ req'.error = "Account Disabled"
           /\ req'.stage = "done")]_vars

C6_NoGrantToDisabledOrLocked ==
  [][/\ (req' # req /\ req'.granted # NoId)
          => ~DisabledOrLocked(staff[req'.granted])
     /\ (Idle /\ req' # req /\ req'.gate = "optionalAuth"
           /\ req'.user # NoUser)
          => ~DisabledOrLocked(staff[req'.user.id])]_vars

OwnToken(token) == token.kind \in {"access", "refresh", "reset"}

\* C2: a token the routes issued before the staff member's password reset
\* completed neither resolves a principal at the gate nor obtains a token
\* pair afterwards.
C2_OldTokensDeadAfterReset ==
  [][(/\ Idle
      /\ req' # req
      /\ OwnToken(req'.token)
      /\ req'.token.at < staff[req'.token.id].passwordChangedAt)
       => (/\ req'.granted = NoId
           /\ req'.user = NoUser)]_vars

\* C3: a validly signed, unexpired token signed before the staff member's
\* passwordChangedAt was updated is answered 401 "Token Invalid" by
\* authenticateToken, whichever earlier tick it was signed at.  Stated for
\* the tokens whose userId claim lets the gate load the record.
C3_StaleTokenRejected ==
  [][(/\ GateStep
      /\ jwtVerify(req'.token) = "ok"
      /\ req'.token.userId \in StaffIds
      /\ staff[req'.token.userId].isActive
      /\ req'.token.at < staff[req'.token.userId].passwordChangedAt)
       => (/\ req'.status = 401
           /\ req'.error = "Token Invalid")]_vars

\* C4: the access token generateTokens signed for an active, unlocked staff
\* member, presented to authenticateToken before its expiry (and signed no
\* earlier than the last password change), resolves to that staff member
\* and the request proceeds; presented after its expiry it is answered 401
\* "Token Expired".
C4_AccessTokenRoundTrip ==
  [][(/\ GateStep
      /\ req'.token.kind = "access"
      /\ ~DisabledOrLocked(staff[req'.token.id])
      /\ req'.token.iat >=
           staff[req'.token.id].passwordChangedAt \div TicksPerSec)
       => (/\ jwtVerify(req'.token) = "ok"
             => (req'.userId = req'.token.id /\ req'.stage = "chain")
           /\ jwtVerify(req'.token) = "TokenExpiredError"
             => (req'.status = 401 /\ req'.error = "Token Expired"))]_vars

\* The table of the specification.
CarerCapabilities ==
  {"view_residents", "create_logs", "view_care_plans", "complete_tasks"}

SeniorCapabilities ==
  CarerCapabilities \cup {"create_care_plans", "view_reports", "manage_tasks"}

Granted(level, name) ==
  \/ level = "Carer" /\ name \in CarerCapabilities
  \/ level = "Senior" /\ name \in SeniorCapabilities
  \/ level = "Admin"

\* C8: for every access level of the schema and every capability name,
\* hasPermission returns what the table says, whatever else the document
\* holds.
C8_MatchesTable ==
  (hp.result # "none" /\ hp.doc.accessLevel \in AccessLevels)
    => (hp.result = "true" <=> Granted(hp.doc.accessLevel, hp.permission))

\* C8 witness: an Admin document was asked for a name outside the table and
\* was granted it.
C8_Witness ==
  /\ hp.result = "true"
  /\ hp.doc.accessLevel = "Admin"
  /\ hp.doc.role = "Carer"
  /\ hp.permission = "ai_features"

\* C9: what a Carer is granted a Senior is granted, what a Senior is granted
\* an Admin is granted, a Senior is granted something a Carer is not, and an
\* access level outside the three is granted nothing.
C9_OrderedByRole ==
  /\ (hp.result = "true" /\ hp.doc.accessLevel = "Carer")
       => hasPermission([hp.doc EXCEPT !.accessLevel = "Senior"],
                        hp.permission)
  /\ (hp.result = "true" /\ hp.doc.accessLevel = "Senior")
       => hasPermission([hp.doc EXCEPT !.accessLevel = "Admin"],
                        hp.permission)
  /\ \E name \in PermNames :
       /\ hasPermission([hp.doc EXCEPT !.accessLevel = "Senior"], name)
       /\ ~hasPermission([hp.doc EXCEPT !.accessLevel = "Carer"], name)
  /\ (hp.result # "none" /\ hp.doc.accessLevel \notin AccessLevels)
       => hp.result = "false"

\* C9 witness: a document of an access level outside the three was asked
\* for a capability every role of the table holds and was refused.
C9_Witness ==
  /\ hp.result = "false"
  /\ hp.doc.accessLevel = "Manager"
  /\ hp.permission = "view_residents"

\* C11: a request is let through requireResidentAccess only for a resident
\* of the principal's own facility, and a handler loads a resident's
\* document only if the resident lives in the principal's facility.
C11_TenantBound ==
  /\ (req.last.mw = "requireResidentAccess" /\ req.last.next)
       => findResidentById(residentIdOf(req.last.params)).facility
            = req.user.facility
  /\ req.read # "" => findResidentById(req.read).facility = req.user.facility

\* The token gives authenticateToken a reason to deny: it is absent, badly
\* signed, expired, names no staff record, or names one that is disabled,
\* locked or whose password changed after the token was signed.
GateMustDeny(token) ==
  \/ token.kind = "none"
  \/ ~token.sig
  \/ NowSec >= token.exp
  \/ token.userId \notin StaffIds
  \/ /\ token.userId \in StaffIds
     /\ \/ ~staff[token.userId].isActive
        \/ isAccountLocked(staff[token.userId])
        \/ token.iat < staff[token.userId].passwordChangedAt \div TicksPerSec

\* The permission middleware that ran last had a principal and a reason to
\* deny: the access level is not among the required ones, the capability is
\* not in the table, or the resident is neither assigned nor the principal
\* Senior or Admin.
PermissionMustDeny(r) ==
  /\ r.user # NoUser
  /\ \/ /\ r.last.mw = "requireAccessLevel"
        /\ ~Includes(r.last.levels, r.user.accessLevel)
     \/ /\ r.last.mw = "requirePermission"
        /\ ~Granted(r.user.accessLevel, r.last.permission)
     \/ /\ r.last.mw = "requireResidentAccess"
        /\ residentIdOf(r.last.params) # ""
        /\ r.user.accessLevel \notin {"Admin", "Senior"}
        /\ ~Includes(r.user.assignedResidents, residentIdOf(r.last.params))

C13_GenericDenialBody ==
  [][(/\ req.deniedBy # ""
      /\ req'.deniedBy # ""
      /\ req.status \in {401, 403}
      /\ req'.status = req.status)
       => req'.error = req.error]_vars

\* C14: wherever a presented token is verified and rejected, a badly signed
\* token is reported as invalid and a well signed token past its expiry as
\* expired.
C14_InvalidVsExpired ==
  [][(/\ Idle
      /\ req' # req
      /\ req'.token.kind # "none"
      /\ req'.gate # "optionalAuth")
       => (/\ ~req'.token.sig
                => req'.error \in {"Invalid Token", "Invalid token"}
           /\ (req'.token.sig /\ NowSec >= req'.token.exp)
                => req'.error \in {"Token Expired", "Token expired"})]_vars


(***************************************************************************)
(* C15: every gated request that reached a terminal outcome (a 401, a 403, *)
(* a handler's success or a handler's error) handed exactly one audit      *)
(* record to the log, and that record carries the outcome.                 *)
(***************************************************************************)
C15_ExactlyOneRecord ==
  (req.stage = "done" /\ req.gate = "authenticateToken")
    => /\ Len(req.records) = 1
       /\ req.records[1].statusCode = req.status

(***************************************************************************)
(* C16: a gated request that presented no token is answered 401 and hands  *)
(* no record to the audit log.                                             *)
(***************************************************************************)
C16_NoTokenNoRecord ==
  (req.stage = "done" /\ req.gate = "authenticateToken"
     /\ req.token.kind = "none")
    => (req.status = 401 /\ req.records = <<>>)

\* The calls whose line is in the file.
Logged(a) == {a.log[k] : k \in 1..Len(a.log)}

C20_AppendOnlyInOrder ==
  [][/\ Len(audit'.log) >= Len(audit.log)
     /\ SubSeq(audit'.log, 1, Len(audit.log)) = audit.log
     /\ \A k \in 1..(Len(audit'.log) - 1) :
          audit'.log[k] < audit'.log[k + 1]]_vars

\* No sensitive key of x, at any depth, holds anything but the marker.
RECURSIVE Redacted(_)
Redacted(x) ==
  IsObject(x) =>
    \A key \in DOMAIN x.kids :
      /\ key \in sensitiveFields => x.kids[key] = Marker
      /\ Redacted(x.kids[key])

\* x has, at some depth, a sensitive key that holds the marker.
RECURSIVE Marked(_)
Marked(x) ==
  /\ IsObject(x)
  /\ \E key \in DOMAIN x.kids :
       \/ key \in sensitiveFields /\ x.kids[key] = Marker
       \/ Marked(x.kids[key])

(***************************************************************************)
(* C18: in the output of redactSensitiveData, for details of any depth     *)
(* (objects inside arrays included) and any value of a sensitive key, no   *)
(* sensitive key holds a value other than the marker.                      *)
(***************************************************************************)
C18_NoSensitiveValueLeft ==
  rd.state # "none" => Redacted(rd.once)

(***************************************************************************)
(* C19: redaction is idempotent: redacting redacted details gives the same *)
(* details.                                                                *)
(***************************************************************************)
C19_Idempotent ==
  rd.state = "twice" => rd.twice = rd.once

C19_Witness ==
  /\ rd.state = "twice"
  /\ rd.once # rd.details
  /\ Marked(rd.once)
  /\ \E key \in DOMAIN rd.once.kids : Marked(rd.once.kids[key])

\* An entry written for a request without the status of a response: the
\* outcome is left open.
OutcomeUnknown(entry) ==
  entry.eventType = "API_ACCESS" /\ entry.statusCode \notin 100..599

(***************************************************************************)
(* C21: a request to a sensitive route whose connection is closed after    *)
(* the handler was given the request and before a response was sent        *)
(* eventually has an audit record that marks its outcome as unknown.       *)
(***************************************************************************)
C21_AbortedRecordedAsUnknown ==
  (req.aborted /\ req.stage = "chain")
    ~> (req.aborted /\ \E k \in 1..Len(req.records) :
                         OutcomeUnknown(req.records[k]))

(***************************************************************************)
(* C22: a call of incrementLoginAttempts that brings the stored            *)
(* loginAttempts of a staff record to 5 or more leaves the record locked:  *)
(* accountLocked is true and lockUntil is two hours after the call,        *)
(* whatever copies of the record the callers had loaded.                   *)
(***************************************************************************)
C22_LockedAtFive ==
  [][\A s \in StaffIds :
       (staff[s].loginAttempts < MaxLoginAttempts
          /\ staff'[s].loginAttempts >= MaxLoginAttempts)
         => (staff'[s].accountLocked
               /\ staff'[s].lockUntil = now + LockTicks)]_vars

(***************************************************************************)
(* C23: once POST /reset-password has set the password "q", a login with   *)
(* "q" authenticates (200) and a login with any other password is          *)
(* rejected.                                                               *)
(***************************************************************************)
C23_CredentialRoundTrip ==
  [][\A password \in Passwords :
       (Login(1, password) /\ staff[1].password.plain = "q")
         => (req'.status = 200 <=> password = "q")]_vars

(***************************************************************************)
(* C24: POST /api/auth/refresh given a token that was not issued as a      *)
(* refresh token (an access token, a password-reset token) answers 401     *)
(* and issues no pair.                                                     *)
(***************************************************************************)
C24_RefreshTokensOnly ==
  [][\A token \in SessionTokens :
       (Refresh(token) /\ token.kind # "refresh")
         => (req'.status = 401 /\ req'.granted = NoId /\ issued' = issued)]_vars

(***************************************************************************)
(* C25: a password-reset token changes the password at most once: a reset  *)
(* request that completes after another request with its token has         *)
(* succeeded (the stored token has been cleared since it found the staff   *)
(* member) is answered 401 and leaves the stored password as it is.        *)
(***************************************************************************)
C25_ResetTokenOnce ==
  [][\A c \in Callers, password \in Passwords :
       (ResetSave(c, password)
          /\ staff[loaded[c].id].passwordResetToken = NoToken)
         => (req'.status = 401
               /\ staff'[loaded[c].id].password
                    = staff[loaded[c].id].password)]_vars

(***************************************************************************)
(* C26: a PUT /api/staff/:id request of a principal whose role is not      *)
(* Admin changes the role and the access level of no staff record, the     *)
(* principal's own included: its capabilities do not grow.                 *)
(***************************************************************************)
C26_OnlyAdminsChangePrivileges ==
  [][\A target \in StaffIds, body \in PrivilegeBodies \cup Bodies :
       (StaffPut(target, body) /\ req.user.role # "Admin")
         => \A s \in StaffIds :
              /\ staff'[s].role = staff[s].role
              /\ staff'[s].accessLevel = staff[s].accessLevel]_vars

(***************************************************************************)
(* C27: an error of one of the error classes thrown by a handler is        *)
(* answered by errorHandler with one JSON response that has the status of  *)
(* the class; a ValidationError thrown by a route is answered 400.         *)
(***************************************************************************)
C27_StatusOfClass ==
  [][\A class \in DOMAIN AppErrors :
       ThrowingHandler(class)
         => (req'.stage = "done" /\ req'.status = AppErrors[class]
               /\ ~req'.html)]_vars

\* The principal of the request may edit the log now: it created the log
\* or is Admin or Senior, and a Carer is within the edit window.
MayEdit(log, user) ==
  /\ log.createdBy = user.id \/ user.role \in {"Admin", "Senior"}
  /\ user.role = "Carer" => now - log.createdAt <= EditWindow

(***************************************************************************)
(* C28: PUT /api/daily-logs/:id updates a log only if the principal        *)
(* created it or has role Admin or Senior, and for a Carer only within 24  *)
(* hours of the log's creation; otherwise it answers 403 and leaves the    *)
(* log unchanged.                                                          *)
(***************************************************************************)
C28_EditsByAuthorshipAndTime ==
  [][(DailyLogPut("l1") /\ ~MayEdit(dailyLog, req.user))
       => (req'.status = 403 /\ dailyLog' = dailyLog)]_vars

(***************************************************************************)
(* C29: a webhook request reaches the handler of its endpoint only if its  *)
(* signature header is the HMAC-SHA256 of the body it sent under the       *)
(* secret of that endpoint; with a missing or another signature it is      *)
(* answered 401 and the handler does not run.                              *)
(***************************************************************************)
C29_SignatureVerified ==
  (hook.stage # "idle"
     /\ hook.signature # HmacSha256(Secrets[hook.endpoint], hook.raw))
    => (hook.stage = "done" /\ hook.status = 401 /\ ~hook.handlerRan)

(***************************************************************************)
(* C30: after any sequence of addReadReceipt and createNewVersion the plan *)
(* holds at most one receipt per staff member and every receipt carries    *)
(* the current version; createNewVersion raises currentVersion by exactly  *)
(* one and leaves nobody acknowledged; addReadReceipt makes                *)
(* getStaffReadStatus return the date of the call for its staff member and *)
(* changes nobody else's answer, so a date is returned exactly for those   *)
(* who acknowledged the current version.                                   *)
(***************************************************************************)
ReceiptsWellFormed(p) ==
  /\ \A i, j \in 1..Len(p.readReceipts) :
       p.readReceipts[i].staff = p.readReceipts[j].staff => i = j
  /\ \A i \in 1..Len(p.readReceipts) :
       p.readReceipts[i].version = p.currentVersion

C30_ReadReceipts ==
  [][/\ ReceiptsWellFormed(plan')
     /\ \A staffId \in StaffIds :
          AddReadReceipt(staffId)
            => /\ plan'.currentVersion = plan.currentVersion
               /\ getStaffReadStatus(plan', staffId) = now
               /\ \A other \in StaffIds \ {staffId} :
                    getStaffReadStatus(plan', other)
                      = getStaffReadStatus(plan, other)
     /\ (plan'.currentVersion # plan.currentVersion)
          => /\ plan'.currentVersion = plan.currentVersion + 1
             /\ \A staffId \in StaffIds :
                  getStaffReadStatus(plan', staffId) = NoDate]_vars

\* Version 2 of the plan, acknowledged by both staff members at different
\* times, the one who acknowledged first standing last in the array.
C30_Witness ==
  /\ plan.currentVersion = 2
  /\ Len(plan.previousVersions) = 1
  /\ Len(plan.readReceipts) = 2
  /\ getStaffReadStatus(plan, 1) > getStaffReadStatus(plan, 2)
  /\ getStaffReadStatus(plan, 2) # NoDate
  /\ plan.readReceipts[2].staff = 1
====
